---- MODULE Spec2Model ----
(***************************************************************************)
(* Model of the RAG chat pipeline of the case-taxonomy backend:            *)
(*   - generateEmbedding / chatCompletion   (backend/src/openai.ts)        *)
(*   - queryWithRetry / ensureDbInitialized (backend/src/database.ts)      *)
(*   - chatHandler                          (backend/src/functions/chat.ts)*)
(* One action is one loop iteration of a retry loop or one stage of the    *)
(* handler.  The outcomes of the remote endpoints and of the database are   *)
(* the nondeterministic inputs.                                             *)
(***************************************************************************)
EXTENDS Integers, Sequences, FiniteSets, TLC

VARIABLES
    configured,     \* OPENAI_ENDPOINT and an auth mode are set (openai.ts:82)
    call,           \* frame of the running generateEmbedding / chatCompletion
    store,          \* rows of table cases, oldest first (created_at ascending)
    request,        \* the incoming HTTP request of chatHandler
    pc,             \* position of chatHandler
    dbInitialized,  \* database.ts:224
    userMessage,    \* body.message?.trim()
    queryEmbedding, \* chat.ts:73
    relevantCases,  \* chat.ts:84
    dbq,            \* frame of the running queryWithRetry
    trace,          \* calls chatHandler has made so far, in order
    aiResponse,     \* chat.ts:168
    response        \* the HttpResponseInit chatHandler returned

VARIABLES
    caseData,       \* the argument of buildCaseEmbeddingText
    embeddingText   \* the value buildCaseEmbeddingText returned

VARIABLES
    userQuery,            \* chatCompletion's userQuery, called on its own
    conversationHistory,  \* chatCompletion's conversationHistory, called on its own
    messages,             \* openai.ts:225, the messages sent to the model
    conversation          \* the chat sidebar: conversationId, messages, sending

VARIABLES
    cases,          \* table cases by case_id: the stored fields and embedding
    handlers        \* the running createCase / updateCase invocations

VARIABLES
    dbCall,         \* a queryWithRetry call on its own: its frame and the outcomes so far
    client,         \* a request of the frontend API client with its retry state
    paging          \* the page and pageSize parameters of listCases and what is used

VARIABLES
    callers,        \* the requests calling ensureDbInitialized: position and calls made
    initRuns        \* calls of initializeDatabase: started, succeeded, failed

\* the variables of the text builder
textVars == <<caseData, embeddingText>>

\* the variables chatHandler and the OpenAI calls never touch
\* the variables of the message builder and of the chat sidebar
convVars == <<userQuery, conversationHistory, messages, conversation>>

\* the variables of the callers of ensureDbInitialized
dbVars == <<callers, initRuns>>

\* the variables of the case handlers
caseVars == <<cases, handlers>>

\* the variables of the single calls: queryWithRetry, apiClient, listCases paging
auxVars == <<dbCall, client, paging>>

extVars == <<textVars, convVars, dbVars, caseVars, auxVars>>

vars == <<configured, call, store, request, pc, dbInitialized, userMessage,
          queryEmbedding, relevantCases, dbq, trace, aiResponse, response, extVars>>

\* the variables of chatHandler and of the OpenAI calls
chatVars == <<configured, call, store, request, pc, dbInitialized, userMessage,
              queryEmbedding, relevantCases, dbq, trace, aiResponse, response>>

handlerVars == <<store, request, pc, dbInitialized, userMessage, queryEmbedding,
                 relevantCases, dbq, trace, aiResponse, response>>

(***************************************************************************)
(* Program constants                                                        *)
(***************************************************************************)
MAX_RETRIES == 5
INITIAL_RETRY_DELAY == 2000
TOP_K_CASES == 10
MAX_MESSAGE_LENGTH == 2000
DB_MAX_RETRIES == 3
SOURCES_LIMIT == 5

(***************************************************************************)
(* Bounds of the model                                                      *)
(***************************************************************************)
\* largest number of rows in table cases
MaxStore == 11
\* largest retry-after hint (seconds) a 429 response carries
MaxHint == 60

(***************************************************************************)
(* Values                                                                   *)
(***************************************************************************)
NoHint == -1
\* values of the retry-after header: absent, "5", and the largest hint
RetryAfterHints == {NoHint, 5, MaxHint}

Pow2(n) == IF n <= 0 THEN 1 ELSE 2 ^ n

Min(a, b) == IF a <= b THEN a ELSE b

\* JavaScript values of type number[] | undefined
EmptyArray == [tag |-> "array", elems |-> <<>>]
Undefined == [tag |-> "undefined", elems |-> <<>>]
Vector(x) == [tag |-> "array", elems |-> <<x>>]
\* the embedding space, reduced to one coordinate
Coordinates == {1, 2}

\* the strings chatCompletion can return
NOT_CONFIGURED == "AI Assistant is not configured. Please contact your administrator."
NO_RESPONSE == "No response generated."
APOLOGY == "I'm sorry, I encountered an error while processing your request. Please try again."
UNABLE == "Unable to generate a response at this time. Please try again later."
GENERATED == "<text generated by the model>"

(***************************************************************************)
(* Outcomes of one attempt against the Azure OpenAI endpoint                *)
(*   authError : getAuthHeaders() throws, no request is sent                *)
(*   netError  : fetch() rejects, error.code = code                         *)
(*   http      : a response with a status; 429 may carry retry-after        *)
(*   badJson   : 200 whose body does not parse or lacks data / choices      *)
(*   noField   : 200 whose first element lacks embedding / message.content  *)
(*   ok        : 200 with a well-formed body                                *)
(***************************************************************************)
Outcome(k, c, s, h, x) == [kind |-> k, code |-> c, status |-> s, hint |-> h, x |-> x]

OutcomesWith(hints) ==
    {Outcome("authError", "", 0, NoHint, 0)}
    \cup {Outcome("netError", c, 0, NoHint, 0) : c \in {"ECONNRESET", "ETIMEDOUT", "UND_ERR"}}
    \cup {Outcome("http", "", 429, h, 0) : h \in hints}
    \cup {Outcome("http", "", s, NoHint, 0) : s \in {400, 500}}
    \cup {Outcome("badJson", "", 200, NoHint, 0), Outcome("noField", "", 200, NoHint, 0)}
    \cup {Outcome("ok", "", 200, NoHint, x) : x \in Coordinates}

\* every outcome of an attempt
Outcomes == OutcomesWith(RetryAfterHints)

\* a request reaches the endpoint unless building the headers failed
SendsRequest(o) == o.kind # "authError"

\* kind of failure of an outcome, as the specification classifies them
OutcomeClass(o) ==
    IF o.kind = "http" /\ o.status = 429 THEN "rateLimit"
    ELSE IF o.kind = "netError" /\ o.code \in {"ECONNRESET", "ETIMEDOUT"} THEN "netTransient"
    ELSE IF o.kind = "http" /\ o.status >= 500 THEN "http5xx"
    ELSE IF o.kind = "http" THEN "http4xx"
    ELSE IF o.kind = "netError" THEN "netOther"
    ELSE o.kind

\* rate limit, transient network failure, or anything else
Coarse(class) ==
    IF class \in {"rateLimit", "netTransient", "ok"} THEN class ELSE "other"

(***************************************************************************)
(* The frame of a call of generateEmbedding or chatCompletion               *)
(***************************************************************************)
NoCall ==
    [fn |-> "none", status |-> "idle", attempt |-> 0, requests |-> 0,
     delay |-> 0, waited |-> 0, last |-> "none", hint |-> NoHint, seen |-> {},
     result |-> Undefined, text |-> ""]

NewCall(f) == [NoCall EXCEPT !.fn = f, !.status = "running", !.attempt = 1]

\* openai.ts:82-85 and 183-185: nothing is sent when the service is not configured
EnterCall(f, conf) ==
    IF conf THEN NewCall(f)
    ELSE IF f = "generateEmbedding"
         THEN [NoCall EXCEPT !.fn = f, !.status = "returned", !.result = EmptyArray]
         ELSE [NoCall EXCEPT !.fn = f, !.status = "returned", !.text = NOT_CONFIGURED]

\* mutant: the retry-after header is ignored
RateLimitDelay_NoHint(hint, attempt) == INITIAL_RETRY_DELAY * Pow2(attempt - 1)

\* openai.ts:103-105 and 247-249
RateLimitDelay(hint, attempt) ==
    IF hint # NoHint THEN hint * 1000
    ELSE INITIAL_RETRY_DELAY * Pow2(attempt - 1)

\* openai.ts:131 and 272
BackoffDelay(attempt) == INITIAL_RETRY_DELAY * Pow2(attempt - 1)

\* the bookkeeping common to every attempt
Attempted(f, o) ==
    [f EXCEPT !.requests = IF SendsRequest(o) THEN @ + 1 ELSE @,
              !.last = OutcomeClass(o),
              !.hint = o.hint,
              !.seen = @ \cup {Coarse(OutcomeClass(o))},
              !.delay = 0]

\* mutant: the delay is computed but not waited
Sleep_None(f, d) == [f EXCEPT !.delay = d]

\* await new Promise(resolve => setTimeout(resolve, delay))
Sleep(f, d) == [f EXCEPT !.delay = d, !.waited = @ + d]

\* the for loop's attempt++ and its exit test attempt <= MAX_RETRIES
NextAttempt(f, fallthrough) ==
    IF f.attempt + 1 <= MAX_RETRIES
    THEN [f EXCEPT !.attempt = @ + 1]
    ELSE [fallthrough EXCEPT !.attempt = f.attempt + 1, !.status = "returned"]

\* mutant: a timeout is not retried
IsNetworkRetryable_ResetOnly(code) == code = "ECONNRESET"

\* openai.ts:130
IsNetworkRetryable(code) == code \in {"ECONNRESET", "ETIMEDOUT"}

\* openai.ts:121-137, the catch block of generateEmbedding
EmbeddingCatch(f, o) ==
    IF f.attempt = MAX_RETRIES
    THEN [f EXCEPT !.status = "returned", !.result = EmptyArray]
    ELSE IF o.kind = "netError" /\ IsNetworkRetryable(o.code)
         THEN NextAttempt(Sleep(f, BackoffDelay(f.attempt)),
                          [f EXCEPT !.result = EmptyArray])
         ELSE [f EXCEPT !.status = "thrown"]

\* openai.ts:89-140, one iteration of the loop of generateEmbedding
GenerateEmbeddingStep(f0, o) ==
    LET f == Attempted(f0, o) IN
    IF o.kind = "http" /\ o.status = 429
    THEN LET g == Sleep(f, RateLimitDelay(o.hint, f.attempt))
         IN  NextAttempt(g, [g EXCEPT !.result = EmptyArray])
    ELSE IF o.kind = "noField" THEN [f EXCEPT !.status = "returned", !.result = Undefined]
    ELSE IF o.kind = "ok" THEN [f EXCEPT !.status = "returned", !.result = Vector(o.x)]
    ELSE EmbeddingCatch(f, o)

\* mutant: the catch block of generateEmbedding, which rethrows
ChatCatch_Rethrow(f, o) ==
    IF f.attempt = MAX_RETRIES
    THEN [f EXCEPT !.status = "returned", !.text = APOLOGY]
    ELSE IF o.kind = "netError" /\ IsNetworkRetryable(o.code)
         THEN NextAttempt(Sleep(f, BackoffDelay(f.attempt)), [f EXCEPT !.text = UNABLE])
         ELSE [f EXCEPT !.status = "thrown"]

\* openai.ts:265-275, the catch block of chatCompletion
ChatCatch(f, o) ==
    IF f.attempt = MAX_RETRIES
    THEN [f EXCEPT !.status = "returned", !.text = APOLOGY]
    ELSE NextAttempt(Sleep(f, BackoffDelay(f.attempt)), [f EXCEPT !.text = UNABLE])

\* mutant: a 429 is handled like any other non-OK status
ChatCompletionStep_No429(f0, o) ==
    LET f == Attempted(f0, o) IN
    IF o.kind = "noField" THEN [f EXCEPT !.status = "returned", !.text = NO_RESPONSE]
    ELSE IF o.kind = "ok" THEN [f EXCEPT !.status = "returned", !.text = GENERATED]
    ELSE ChatCatch(f, o)

\* openai.ts:231-278, one iteration of the loop of chatCompletion
ChatCompletionStep(f0, o) ==
    LET f == Attempted(f0, o) IN
    IF o.kind = "http" /\ o.status = 429
    THEN LET g == Sleep(f, RateLimitDelay(o.hint, f.attempt))
         IN  NextAttempt(g, [g EXCEPT !.text = UNABLE])
    ELSE IF o.kind = "noField" THEN [f EXCEPT !.status = "returned", !.text = NO_RESPONSE]
    ELSE IF o.kind = "ok" THEN [f EXCEPT !.status = "returned", !.text = GENERATED]
    ELSE ChatCatch(f, o)

Running(fn) == call.fn = fn /\ call.status = "running"

\* the outcomes drawn for an attempt: a call on its own sees every retry-after
\* value; inside chatHandler, which never observes the length of a wait, the
\* 429 responses carry no retry-after header
AttemptOutcomes == IF pc = "idle" THEN Outcomes ELSE OutcomesWith({NoHint})

\* one attempt of the running generateEmbedding
GenerateEmbeddingAttempt ==
    /\ Running("generateEmbedding")
    /\ \E o \in AttemptOutcomes : call' = GenerateEmbeddingStep(call, o)
    /\ UNCHANGED <<configured, handlerVars, extVars>>

\* one attempt of the running chatCompletion
ChatCompletionAttempt ==
    /\ Running("chatCompletion")
    /\ \E o \in AttemptOutcomes : call' = ChatCompletionStep(call, o)
    /\ UNCHANGED <<configured, handlerVars, extVars>>


(***************************************************************************)
(* The record store: table cases                                            *)
(***************************************************************************)
\* lexemes that to_tsvector / plainto_tsquery can produce
Terms == {"idle", "vm"}

\* a row: case_id (UNIQUE NOT NULL), embedding (0 is NULL, else the
\* coordinate of the stored vector), and the lexemes of its text columns
Row(i, e, t) == [case_id |-> i, embedding |-> e, terms |-> t]

\* which rows carry an embedding / which lexemes a row contains
EmbeddingOf(p, i) ==
    IF p = "none" THEN 0
    ELSE IF p = "all" THEN 1 + (i % 2)
    ELSE IF i % 2 = 0 THEN 0 ELSE 1 + ((i \div 2) % 2)

TermsOf(p, i) ==
    IF p = "none" THEN {}
    ELSE IF p = "all" THEN {"idle"}
    ELSE IF i % 3 = 1 THEN {"idle", "vm"} ELSE {}

StoreSizes == {0, 1, TOP_K_CASES, MaxStore}
\* (embedding pattern, lexeme pattern) of the stores
Patterns ==
    {<<"none", "none">>, <<"all", "all">>, <<"some", "some">>,
     <<"none", "all">>, <<"some", "none">>}

MakeStore(n, pe, pt) == [i \in 1..n |-> Row(i, EmbeddingOf(pe, i), TermsOf(pt, i))]

Stores == {MakeStore(n, p[1], p[2]) : n \in StoreSizes, p \in Patterns}

RECURSIVE Reverse(_)
Reverse(s) == IF s = <<>> THEN <<>> ELSE Append(Reverse(Tail(s)), Head(s))

\* LIMIT n
Limit(s, n) == IF Len(s) <= n THEN s ELSE SubSeq(s, 1, n)

\* embedding <=> $1 : the distance of a stored vector to the query vector
Distance(e, q) == IF e >= q THEN e - q ELSE q - e

\* ORDER BY embedding <=> $1 (stable on a sequence already ordered by recency)
RECURSIVE OrderByDistance(_, _, _)
OrderByDistance(s, q, d) ==
    IF d > Cardinality(Coordinates) THEN <<>>
    ELSE SelectSeq(s, LAMBDA r : Distance(r.embedding, q) = d) \o OrderByDistance(s, q, d + 1)

\* ORDER BY created_at DESC
OrderByCreatedDesc(s) == Reverse(s)

\* mutant: only rows as similar as the threshold asks are returned
VectorQuery_Threshold(rows, qe) ==
    IF qe = <<>> THEN <<>>
    ELSE Limit(SelectSeq(OrderByCreatedDesc(rows),
                         LAMBDA r : r.embedding # 0 /\ Distance(r.embedding, qe[1]) = 0),
               TOP_K_CASES)

\* chat.ts:89-102, the similarity query; $1 is the JSON text of the query
\* embedding, and a text without a coordinate casts to no vector
VectorQuery(rows, qe) ==
    IF qe = <<>> THEN <<>>
    ELSE Limit(OrderByDistance(SelectSeq(OrderByCreatedDesc(rows), LAMBDA r : r.embedding # 0),
                               qe[1], 0),
               TOP_K_CASES)

\* to_tsvector(...) @@ plainto_tsquery('english', $1): every lexeme of the
\* query occurs in the row; a query without lexemes matches nothing
TextMatch(r, queryTerms) == queryTerms # {} /\ queryTerms \subseteq r.terms

\* chat.ts:115-134, the full-text query
KeywordQuery(rows, queryTerms) ==
    Limit(SelectSeq(OrderByCreatedDesc(rows), LAMBDA r : TextMatch(r, queryTerms)), TOP_K_CASES)

\* mutant: ORDER BY created_at ASC
RecentQuery_Oldest(rows) == Limit(rows, TOP_K_CASES)

\* chat.ts:146-157, the most recent cases
RecentQuery(rows) == Limit(OrderByCreatedDesc(rows), TOP_K_CASES)

(***************************************************************************)
(* The request of chatHandler                                               *)
(***************************************************************************)
\* body.message: a string of lead blanks, core characters (first and last
\* not blank) and trail blanks, or a value that is not a string
Message(ty, l, c, t, q) == [type |-> ty, lead |-> l, core |-> c, trail |-> t, terms |-> q]

NoMessage == Message("undefined", 0, 0, 0, {})

Messages ==
    { NoMessage,
      Message("number", 0, 0, 0, {}),
      Message("string", 0, 0, 0, {}),
      Message("string", 1, 0, 1, {}),
      Message("string", 1, 2, 0, {"vm"}),
      Message("string", 0, 3, 0, {}),
      Message("string", 0, 9, 0, {"idle", "vm"}),
      Message("string", 0, MAX_MESSAGE_LENGTH, 1, {"idle"}),
      Message("string", 0, MAX_MESSAGE_LENGTH + 1, 0, {"idle"}) }

\* String.prototype.trim
Trim(m) == [m EXCEPT !.lead = 0, !.trail = 0]

\* String.prototype.length
Length(m) == m.lead + m.core + m.trail

Requests ==
    {[authorized |-> FALSE, json |-> "ok", message |-> Message("string", 0, 9, 0, {"idle", "vm"})],
     [authorized |-> TRUE, json |-> "invalid", message |-> NoMessage]}
    \cup {[authorized |-> TRUE, json |-> "ok", message |-> m] : m \in Messages}

NoRequest == [authorized |-> FALSE, json |-> "none", message |-> NoMessage]

(***************************************************************************)
(* Responses                                                                *)
(***************************************************************************)
HANDLER_ERROR == "I'm sorry, I encountered an error processing your request. Please try again."

NoResponse == [status |-> 0, content |-> "", hasSources |-> FALSE, sources |-> <<>>]
ErrorResponse(code) == [NoResponse EXCEPT !.status = code]
\* chat.ts:191-207, the outer catch
CatchResponse == [NoResponse EXCEPT !.status = 500, !.content = HANDLER_ERROR]

RECURSIVE CaseIds(_)
CaseIds(rows) == IF rows = <<>> THEN <<>> ELSE <<Head(rows).case_id>> \o CaseIds(Tail(rows))

\* mutant: no slice(0, 5)
Sources_All(rows) == SelectSeq(CaseIds(rows), LAMBDA id : id # 0)

\* chat.ts:171-174: slice(0, 5).map(c => c.case_id).filter(Boolean)
Sources(rows) == SelectSeq(CaseIds(Limit(rows, SOURCES_LIMIT)), LAMBDA id : id # 0)

\* chat.ts:176-190
ChatResponse(text, rows) ==
    [status |-> 200, content |-> text,
     hasSources |-> Len(Sources(rows)) > 0, sources |-> Sources(rows)]


(***************************************************************************)
(* queryWithRetry                                                           *)
(***************************************************************************)
\* database.ts:73-82
TransientCodes ==
    {"ECONNRESET", "ECONNREFUSED", "ETIMEDOUT", "57P01", "57P02", "57P03",
     "08006", "08001", "08004"}

\* mutant: every error is retried
IsRetryable_Always(code) == TRUE

\* database.ts:72-82
IsRetryable(code) == code \in TransientCodes

\* outcomes of one pool.query: the result, or an error with a code
DbOutcomes == {"ok", "ECONNRESET", "08006", "42P01"}

NoQuery == [tier |-> "none", status |-> "idle", attempt |-> 0]
NewQuery(tier) == [tier |-> tier, status |-> "running", attempt |-> 1]

\* database.ts:65-98, one iteration of the loop of queryWithRetry
QueryWithRetryStep(q, o) ==
    IF o = "ok" THEN [q EXCEPT !.status = "returned"]
    ELSE IF IsRetryable(o) /\ q.attempt < DB_MAX_RETRIES
         THEN [q EXCEPT !.attempt = @ + 1]
    ELSE [q EXCEPT !.status = "thrown"]

(***************************************************************************)
(* chatHandler                                                              *)
(***************************************************************************)
\* chat.ts:51, !userMessage
IsMissing(m) == m.type = "undefined" \/ Length(m) = 0

\* mutant: no length check
IsTooLong_Never(m) == FALSE

\* chat.ts:60
IsTooLong(m) == Length(m) > MAX_MESSAGE_LENGTH

\* mutant: if (queryEmbedding), which an empty array satisfies
HasQueryEmbedding_Truthy(qe) == qe.tag = "array"

\* chat.ts:86
HasQueryEmbedding(qe) == Len(qe.elems) > 0

\* mutant: the text search runs even when the vector search found cases
NeedsTextSearch_Always(rc) == TRUE

\* chat.ts:111
NeedsTextSearch(rc) == Len(rc) = 0

\* mutant: the full-text query is issued for every message
HasSearchText_Always(m) == TRUE

\* chat.ts:114
HasSearchText(m) == Length(m) > 2

\* chat.ts:144
NeedsRecentCases(rc) == Len(rc) = 0

\* mutant: a tier without its try/catch
TierCatch_Rethrow(tier) == "propagated"

\* chat.ts:105-107, 138-140, 160-162: the catch block of a tier absorbs the error
TierCatch(tier) == "absorbed"

\* the warning a tier's catch block logs
TierWarning(tier) ==
    IF tier = "vector" THEN "vectorFailed"
    ELSE IF tier = "keyword" THEN "keywordFailed" ELSE "recentFailed"

\* the rows the query of a tier returns
TierRows(tier) ==
    IF tier = "vector" THEN VectorQuery(store, queryEmbedding.elems)
    ELSE IF tier = "keyword" THEN KeywordQuery(store, userMessage.terms)
    ELSE RecentQuery(store)

\* the handler returns r
Respond(r) ==
    /\ pc' = "done"
    /\ response' = r
    /\ dbq' = NoQuery
    /\ UNCHANGED <<userMessage, queryEmbedding, relevantCases, trace, aiResponse>>

\* await queryWithRetry(...) of a tier
StartQuery(tier, rc, tr) ==
    /\ pc' = tier
    /\ dbq' = NewQuery(tier)
    /\ relevantCases' = rc
    /\ trace' = Append(tr, tier)
    /\ call' = NoCall
    /\ UNCHANGED <<aiResponse, response>>

\* chat.ts:168, await chatCompletion(userMessage, relevantCases)
StartGeneration(rc, tr) ==
    /\ pc' = "generation"
    /\ call' = EnterCall("chatCompletion", configured)
    /\ dbq' = NoQuery
    /\ relevantCases' = rc
    /\ trace' = Append(tr, "chatCompletion")
    /\ UNCHANGED <<aiResponse, response>>

\* chat.ts:143-163
RecencyTier(rc, tr) ==
    IF NeedsRecentCases(rc) THEN StartQuery("recent", rc, tr) ELSE StartGeneration(rc, tr)

\* chat.ts:110-141
KeywordTier(rc, tr) ==
    IF NeedsTextSearch(rc)
    THEN IF HasSearchText(userMessage)
         THEN StartQuery("keyword", rc, Append(tr, "keywordTier"))
         ELSE RecencyTier(rc, Append(tr, "keywordTier"))
    ELSE RecencyTier(rc, tr)

\* chat.ts:86-108
VectorTier(qe, tr) ==
    IF HasQueryEmbedding(qe) THEN StartQuery("vector", <<>>, tr) ELSE KeywordTier(<<>>, tr)

\* chat.ts:41-44
Authenticate ==
    /\ pc = "start"
    /\ IF request.authorized
       THEN /\ pc' = "ensureDb"
            /\ UNCHANGED <<response, dbq, userMessage, queryEmbedding, relevantCases,
                           trace, aiResponse>>
       ELSE Respond(ErrorResponse(401))
    /\ UNCHANGED <<configured, call, store, request, dbInitialized>>
    /\ UNCHANGED extVars

\* chat.ts:46 with database.ts:230-235
EnsureDbInitialized ==
    /\ pc = "ensureDb"
    /\ \E ok \in BOOLEAN :
         IF dbInitialized \/ ok
         THEN /\ dbInitialized' = TRUE
              /\ pc' = "parse"
              /\ UNCHANGED <<response, dbq, userMessage, queryEmbedding, relevantCases,
                             trace, aiResponse>>
         ELSE /\ UNCHANGED dbInitialized
              /\ Respond(CatchResponse)
    /\ UNCHANGED <<configured, call, store, request>>
    /\ UNCHANGED extVars

\* chat.ts:48-75: parse the body, validate the message, call generateEmbedding
Validate ==
    /\ pc = "parse"
    /\ IF request.json # "ok" \/ request.message.type = "number"
       THEN Respond(CatchResponse) /\ UNCHANGED call
       ELSE IF IsMissing(Trim(request.message)) \/ IsTooLong(Trim(request.message))
       THEN Respond(ErrorResponse(400)) /\ UNCHANGED call
       ELSE /\ userMessage' = Trim(request.message)
            /\ pc' = "embedding"
            /\ call' = EnterCall("generateEmbedding", configured)
            /\ trace' = Append(trace, "generateEmbedding")
            /\ UNCHANGED <<queryEmbedding, relevantCases, dbq, aiResponse, response>>
    /\ UNCHANGED <<configured, store, request, dbInitialized>>
    /\ UNCHANGED extVars

\* chat.ts:75-86: generateEmbedding has returned or thrown
EmbeddingDone ==
    /\ pc = "embedding"
    /\ call.status \in {"returned", "thrown"}
    /\ LET qe == IF call.status = "thrown" THEN EmptyArray ELSE call.result
           tr == IF call.status = "thrown" THEN Append(trace, "embeddingFailed") ELSE trace
       IN  /\ queryEmbedding' = qe
           /\ IF qe = Undefined
              THEN /\ pc' = "done"
                   /\ response' = CatchResponse
                   /\ call' = NoCall
                   /\ trace' = tr
                   /\ UNCHANGED <<dbq, relevantCases, aiResponse>>
              ELSE VectorTier(qe, tr)
    /\ UNCHANGED <<configured, store, request, dbInitialized, userMessage>>
    /\ UNCHANGED extVars

\* one attempt of the running queryWithRetry and, when it ends, the rest of the tier
QueryAttempt ==
    /\ pc \in {"vector", "keyword", "recent"}
    /\ dbq.status = "running"
    /\ \E o \in DbOutcomes :
         LET q == QueryWithRetryStep(dbq, o)
             rows == IF q.status = "returned" THEN TierRows(dbq.tier) ELSE relevantCases
             tr == IF q.status = "thrown" THEN Append(trace, TierWarning(dbq.tier)) ELSE trace
         IN  IF q.status = "running"
             THEN /\ dbq' = q
                  /\ UNCHANGED <<call, pc, relevantCases, trace, aiResponse, response>>
             ELSE IF q.status = "thrown" /\ TierCatch(dbq.tier) # "absorbed"
             THEN /\ pc' = "done"
                  /\ response' = CatchResponse
                  /\ dbq' = NoQuery
                  /\ trace' = tr
                  /\ UNCHANGED <<call, relevantCases, aiResponse>>
             ELSE IF dbq.tier = "vector" THEN KeywordTier(rows, tr)
             ELSE IF dbq.tier = "keyword" THEN RecencyTier(rows, tr)
             ELSE StartGeneration(rows, tr)
    /\ UNCHANGED <<configured, store, request, dbInitialized, userMessage, queryEmbedding>>
    /\ UNCHANGED extVars

\* chat.ts:168-190: chatCompletion has returned, build the answer
ChatDone ==
    /\ pc = "generation"
    /\ call.status \in {"returned", "thrown"}
    /\ pc' = "done"
    /\ IF call.status = "thrown"
       THEN response' = CatchResponse /\ UNCHANGED aiResponse
       ELSE /\ aiResponse' = call.text
            /\ response' = ChatResponse(call.text, relevantCases)
    /\ UNCHANGED <<configured, call, store, request, dbInitialized, userMessage,
                   queryEmbedding, relevantCases, dbq, trace>>
    /\ UNCHANGED extVars

(***************************************************************************)
(* buildCaseEmbeddingText (openai.ts:147-167)                               *)
(***************************************************************************)
\* a field the caller did not send (undefined)
ABSENT == "<absent>"

StringFields ==
    {"case_id", "ta_name", "case_type", "issue_type", "fqr_accurate", "fqr_help_resolve",
     "idleness_reason", "collab_wait_reason", "pg_wait_reason", "case_complexity",
     "source_of_resolution", "ta_reviewer_notes", "next_action_sna"}

BooleanFields == {"idle_over_8_hours", "icm_linked"}

CaseFields == StringFields \cup BooleanFields

\* JavaScript truthiness of a field value
Truthy(v) == v \notin {ABSENT, "", "false"}

\* v || ''
OrEmpty(v) == IF Truthy(v) THEN v ELSE ""

\* v ? 'Yes' : 'No'
YesNo(v) == IF Truthy(v) THEN "Yes" ELSE "No"

\* the template literal `label: text`, and the empty string ''
Part(label, text) == [label |-> label, text |-> text]
EmptyString == Part("", "")

\* a part that is always built: `label: ${v || ''}`
Always(label, v) == Part(label, OrEmpty(v))

\* a part that is built for a truthy value only: v ? `label: ${v}` : ''
Conditional(label, v) == IF Truthy(v) THEN Part(label, v) ELSE EmptyString

\* openai.ts:148-164, the array before filter(Boolean)
Parts(d) ==
    << Always("Case ID", d["case_id"]),
       Always("TA Name", d["ta_name"]),
       Always("Case Type", d["case_type"]),
       Always("Issue Type", d["issue_type"]),
       Always("FQR Accurate", d["fqr_accurate"]),
       Always("FQR Help Resolve", d["fqr_help_resolve"]),
       Part("Idle Over 8 Hours", YesNo(d["idle_over_8_hours"])),
       Conditional("Idleness Reason", d["idleness_reason"]),
       Conditional("Collab Wait Reason", d["collab_wait_reason"]),
       Conditional("PG Wait Reason", d["pg_wait_reason"]),
       Always("Case Complexity", d["case_complexity"]),
       Part("ICM Linked", YesNo(d["icm_linked"])),
       Always("Source of Resolution", d["source_of_resolution"]),
       Conditional("Reviewer Notes", d["ta_reviewer_notes"]),
       Conditional("SNA", d["next_action_sna"]) >>

\* the label under which a field appears in the text
LabelOf(f) ==
    CASE f = "case_id" -> "Case ID"
      [] f = "ta_name" -> "TA Name"
      [] f = "case_type" -> "Case Type"
      [] f = "issue_type" -> "Issue Type"
      [] f = "fqr_accurate" -> "FQR Accurate"
      [] f = "fqr_help_resolve" -> "FQR Help Resolve"
      [] f = "idle_over_8_hours" -> "Idle Over 8 Hours"
      [] f = "idleness_reason" -> "Idleness Reason"
      [] f = "collab_wait_reason" -> "Collab Wait Reason"
      [] f = "pg_wait_reason" -> "PG Wait Reason"
      [] f = "case_complexity" -> "Case Complexity"
      [] f = "icm_linked" -> "ICM Linked"
      [] f = "source_of_resolution" -> "Source of Resolution"
      [] f = "ta_reviewer_notes" -> "Reviewer Notes"
      [] f = "next_action_sna" -> "SNA"

\* openai.ts:164-166: filter(Boolean) drops the empty strings; the result
\* is the kept parts in order, which join('. ') writes one after the other
BuildCaseEmbeddingText(d) == SelectSeq(Parts(d), LAMBDA part : part # EmptyString)

\* a record none of whose fields was sent, and the records that have every field
AbsentCase == [f \in CaseFields |-> ABSENT]
FullCases ==
    {[f \in CaseFields |-> IF f \in BooleanFields
                           THEN (IF f \in set THEN "true" ELSE "false")
                           ELSE (IF f \in set THEN "x" ELSE "")] : set \in SUBSET CaseFields}

\* a record a caller sent with only some of its fields
Partial(d, sent) == [f \in CaseFields |-> IF f \in sent THEN d[f] ELSE ABSENT]

CaseDatas ==
    FullCases \cup {Partial(d, {"case_id", "ta_name", "idle_over_8_hours"}) : d \in FullCases}
              \cup {AbsentCase}

NoText == [built |-> FALSE, parts |-> <<>>]

TextIdle == caseData = AbsentCase /\ embeddingText = NoText

\* buildCaseEmbeddingText(caseData)
BuildText ==
    /\ ~embeddingText.built
    /\ embeddingText' = [built |-> TRUE, parts |-> BuildCaseEmbeddingText(caseData)]
    /\ UNCHANGED <<caseData, chatVars, convVars, dbVars, caseVars, auxVars>>

(***************************************************************************)
(* The messages of chatCompletion (openai.ts:225-229) and the chat sidebar  *)
(* (frontend/src/components/chat-sidebar.tsx)                               *)
(***************************************************************************)
\* conversationHistory.slice(-6)
HISTORY_WINDOW == 6

\* the longest conversation history passed to chatCompletion
MaxHistory == 8

\* the number of messages the user sends from the sidebar
MaxTurns == 2

\* a chat message: its role, its content when the user typed it (a message),
\* its content when it is text of the service, and the cases quoted in it
Turn(role, m, text, ids) == [role |-> role, message |-> m, text |-> text, cases |-> ids]

\* openai.ts:226, the system prompt with the case context
SystemTurn(contextCases) == Turn("system", NoMessage, "system prompt", CaseIds(contextCases))

\* openai.ts:228
UserTurn(q) == Turn("user", q, "", <<>>)

AssistantTurn(text) == Turn("assistant", NoMessage, text, <<>>)

\* mutant: the oldest turns are kept
Slice_FromStart(s, start) == SubSeq(s, 1, Min(Len(s), 0 - start))

\* Array.prototype.slice(start) for a negative or a non-negative start
Slice(s, start) ==
    LET from == IF start < 0 THEN (IF Len(s) + start < 0 THEN 0 ELSE Len(s) + start)
                ELSE Min(start, Len(s))
    IN  SubSeq(s, from + 1, Len(s))

\* openai.ts:225-229
ChatMessages(q, contextCases, history) ==
    <<SystemTurn(contextCases)>> \o Slice(history, 0 - HISTORY_WINDOW) \o <<UserTurn(q)>>

\* the i-th turn of a history: a user message of i characters or the i-th answer
PastTurn(role, i) ==
    IF role = "user" THEN UserTurn(Message("string", 0, i, 0, {}))
    ELSE Turn("assistant", Message("string", 0, i, 0, {}), GENERATED, <<>>)

Histories ==
    UNION {{[i \in 1..n |-> PastTurn(roles[i], i)] : roles \in [1..n -> {"user", "assistant"}]}
           : n \in 0..MaxHistory}

\* the queries chatCompletion is called with on its own
UserQueries ==
    {Message("string", 0, 3, 0, {}), Message("string", 0, 9, 0, {"idle", "vm"})}

\* what a user types into the sidebar before pressing send: text or blanks
TypedMessages ==
    {Message("string", 1, 9, 1, {"idle", "vm"}), Message("string", 1, 0, 1, {})}

\* chat.ts:168 passes two arguments, conversationHistory takes its default (openai.ts:181)
DefaultHistory == <<>>

\* the messages chatCompletion builds for the request chatHandler is serving
PresentedMessages == ChatMessages(userMessage, relevantCases, DefaultHistory)

\* chat-sidebar.tsx:48-61
NoConversation == [conversationId |-> 0, messages |-> <<>>, sending |-> FALSE]
NewConversation ==
    [conversationId |-> 1, messages |-> <<AssistantTurn("welcome")>>, sending |-> FALSE]

ConvIdle ==
    /\ userQuery = NoMessage
    /\ conversationHistory = <<>>
    /\ messages = <<>>
    /\ conversation = NoConversation

\* chatCompletion builds its messages
BuildMessages ==
    /\ messages = <<>>
    /\ \E rows \in {<<>>, <<Row(1, 1, {})>>} :
          messages' = ChatMessages(userQuery, rows, conversationHistory)
    /\ UNCHANGED <<userQuery, conversationHistory, conversation, chatVars, textVars, dbVars, caseVars,
                   auxVars>>

\* the user turns the sidebar has shown
UserTurns == SelectSeq(conversation.messages, LAMBDA t : t.role = "user")

\* chat-sidebar.tsx:76-96 with api.ts:194-200: handleSend up to the POST
HandleSend ==
    /\ conversation.conversationId # 0
    /\ ~conversation.sending
    /\ pc \in {"off", "done"}
    /\ Len(UserTurns) < MaxTurns
    /\ \E m \in TypedMessages, auth \in BOOLEAN :
          /\ ~IsMissing(Trim(m))
          /\ conversation' = [conversation EXCEPT
                                !.messages = Append(@, UserTurn(Trim(m))),
                                !.sending = TRUE]
          /\ request' = [authorized |-> auth, json |-> "ok", message |-> Trim(m)]
    /\ pc' = "start"
    /\ call' = NoCall
    /\ userMessage' = NoMessage
    /\ queryEmbedding' = EmptyArray
    /\ relevantCases' = <<>>
    /\ dbq' = NoQuery
    /\ trace' = <<>>
    /\ aiResponse' = ""
    /\ response' = NoResponse
    /\ UNCHANGED <<configured, store, dbInitialized, userQuery, conversationHistory,
                   messages, textVars, dbVars, caseVars, auxVars>>

\* chat-sidebar.tsx:98-125: the answer, or an error message, is shown
HandleResponse ==
    /\ conversation.sending
    /\ pc = "done"
    /\ conversation' = [conversation EXCEPT
                          !.messages = Append(@, IF response.status = 200
                                                 THEN AssistantTurn(response.content)
                                                 ELSE Turn("error", NoMessage, response.content, <<>>)),
                          !.sending = FALSE]
    /\ UNCHANGED <<chatVars, userQuery, conversationHistory, messages, textVars, dbVars, caseVars,
                   auxVars>>

(***************************************************************************)
(* ensureDbInitialized called by several requests (database.ts:223-235)     *)
(***************************************************************************)
\* the requests in flight on one process
MaxCallers == 3

\* the calls of ensureDbInitialized one request chain makes, one after the other
MaxCalls == 2

Callers == 1..MaxCallers

NoRuns == [started |-> 0, succeeded |-> 0, failed |-> 0]

DbIdle == callers = <<>> /\ initRuns = NoRuns

\* database.ts:231-232: the flag is read, and initializeDatabase is started
\* when it is false; the caller then waits for it at the await
EnsureEnter(c) ==
    /\ callers[c].pc = "idle"
    /\ callers[c].calls < MaxCalls
    /\ IF dbInitialized
       THEN /\ callers' = [callers EXCEPT ![c].calls = @ + 1]
            /\ UNCHANGED initRuns
       ELSE /\ callers' = [callers EXCEPT ![c].pc = "initializeDatabase"]
            /\ initRuns' = [initRuns EXCEPT !.started = @ + 1]
    /\ UNCHANGED <<chatVars, textVars, convVars, caseVars, auxVars>>

\* database.ts:232-233 with 106-221: initializeDatabase resolves and the flag
\* is set, or it rejects and ensureDbInitialized throws
InitializeDatabaseEnds(c) ==
    /\ callers[c].pc = "initializeDatabase"
    /\ callers' = [callers EXCEPT ![c].pc = "idle", ![c].calls = @ + 1]
    /\ \E ok \in BOOLEAN :
          IF ok
          THEN /\ dbInitialized' = TRUE
               /\ initRuns' = [initRuns EXCEPT !.succeeded = @ + 1]
          ELSE /\ UNCHANGED dbInitialized
               /\ initRuns' = [initRuns EXCEPT !.failed = @ + 1]
    /\ UNCHANGED <<configured, call, store, request, pc, userMessage, queryEmbedding,
                   relevantCases, dbq, trace, aiResponse, response, textVars, convVars, caseVars,
                   auxVars>>

(***************************************************************************)
(* createCase and updateCase (functions/chat.ts:251-363, 526-637)           *)
(***************************************************************************)
\* the requests one handler serves, one after the other
MaxRequests == 2

Handlers == {"h1"}

\* handlers that run side by side
RaceHandlers == {"h1", "h2"}

CaseIdValues == {"C-1", "C-2"}

\* a request body: case_id and one field that changes between versions
CaseBody(id, ta) == [AbsentCase EXCEPT !["case_id"] = id, !["ta_name"] = ta]

TaNames == {"x", "y"}

\* body.x ?? default, the parameters of the INSERT and of the UPDATE
StoredFields(body, caseId) ==
    [f \in CaseFields |->
        IF f = "case_id" THEN caseId
        ELSE IF body[f] # ABSENT THEN body[f]
        ELSE IF f \in BooleanFields THEN "false" ELSE ""]

\* column embedding: NULL, or a vector together with the text it was computed from
NullEmbedding == [x |-> 0, text |-> <<>>]
StoredEmbedding(x, text) == [x |-> x, text |-> text]

NoRow == [present |-> FALSE, fields |-> AbsentCase, embedding |-> NullEmbedding]
CaseRow(fields, e) == [present |-> TRUE, fields |-> fields, embedding |-> e]

\* the text createCase embeds (chat.ts:301), and the one updateCase embeds (chat.ts:563)
CreateText(body) == BuildCaseEmbeddingText(body)
UpdateText(body, caseId) == BuildCaseEmbeddingText([body EXCEPT !["case_id"] = caseId])

\* a row as a successful createCase leaves it
CreatedRow(body, x) ==
    CaseRow(StoredFields(body, body["case_id"]),
            IF x = 0 THEN NullEmbedding ELSE StoredEmbedding(x, CreateText(body)))

EmptyTable == [id \in CaseIdValues |-> NoRow]

\* the tables a request can find: empty, or C-1 created with or without a vector
InitialTables ==
    {EmptyTable} \cup {[EmptyTable EXCEPT !["C-1"] = CreatedRow(CaseBody("C-1", "x"), x)] : x \in {0, 1}}

CaseRequest(op, auth, json, caseId, body) ==
    [op |-> op, authorized |-> auth, json |-> json, caseId |-> caseId, body |-> body]

CaseOps == {"createCase", "updateCase", "deleteCase", "getCaseById", "listCases"}

\* requests on case C-1 that handlers running side by side serve
RaceRequests ==
    {CaseRequest("createCase", TRUE, "ok", "", CaseBody("C-1", ta)) : ta \in TaNames}
    \cup {CaseRequest("updateCase", TRUE, "ok", "C-1", CaseBody(ABSENT, "y")),
          CaseRequest("deleteCase", TRUE, "ok", "C-1", AbsentCase),
          CaseRequest("getCaseById", TRUE, "ok", "C-1", AbsentCase)}

CaseRequests ==
    {CaseRequest("createCase", TRUE, "ok", "", CaseBody(id, ta)) :
        id \in CaseIdValues \cup {ABSENT, ""}, ta \in TaNames}
    \cup {CaseRequest("updateCase", TRUE, "ok", id, CaseBody(ABSENT, ta)) :
        id \in CaseIdValues, ta \in TaNames}
    \cup {CaseRequest(op, TRUE, "ok", "C-1", AbsentCase) :
             op \in {"deleteCase", "getCaseById", "listCases"}}
    \cup {CaseRequest(op, FALSE, "ok", "C-1", CaseBody("C-1", "x")) : op \in CaseOps}
    \cup {CaseRequest(op, TRUE, "invalid", "C-1", AbsentCase) : op \in {"createCase", "updateCase"}}

\* an invocation: the request, its position, the running calls, the local
\* embedding, what generateEmbedding gave, and the response
NoHandler ==
    [req |-> CaseRequest("none", FALSE, "none", "", AbsentCase), pc |-> "off", served |-> 0,
     caseId |-> "", call |-> NoCall, dbq |-> NoQuery, embedding |-> EmptyArray,
     embedded |-> "none", dbError |-> FALSE, wrote |-> FALSE, status |-> 0, data |-> "none"]

CasesIdle == cases = EmptyTable /\ handlers = <<>>

\* a query threw: the outer catch answers 500
DbFailure(hd) ==
    [hd EXCEPT !.pc = "done", !.status = 500, !.dbError = TRUE, !.call = NoCall, !.dbq = NoQuery]

\* the handler returns with a status
Finish(hd, code) == [hd EXCEPT !.pc = "done", !.status = code, !.call = NoCall, !.dbq = NoQuery]

\* await queryWithRetry(...)
CaseQuery(hd, stage) == [hd EXCEPT !.pc = stage, !.dbq = NewQuery(stage)]

\* await generateEmbedding(buildCaseEmbeddingText(...))
CaseEmbedding(hd) ==
    [hd EXCEPT !.pc = "embedding", !.dbq = NoQuery,
               !.call = EnterCall("generateEmbedding", configured)]

\* the text the handler passed to generateEmbedding
EmbeddedText(hd) ==
    IF hd.req.op = "createCase" THEN CreateText(hd.req.body)
    ELSE UpdateText(hd.req.body, hd.caseId)

\* what generateEmbedding gave the handler
EmbeddingKind(f) ==
    IF f.status = "thrown" THEN "thrown"
    ELSE IF f.result = Undefined THEN "undefined"
    ELSE IF Len(f.result.elems) > 0 THEN "vector" ELSE "empty"

\* chat.ts:273, the case_id of the body is not a non-empty string
InvalidCaseId(id) == id \in {ABSENT, ""}

\* the query a handler issues first after ensureDbInitialized: the existence
\* check of updateCase (chat.ts:545), the DELETE (chat.ts:660), the SELECT of
\* getCaseById (chat.ts:493), the COUNT of listCases (chat.ts:430)
FirstQuery(op) ==
    IF op = "updateCase" THEN "select"
    ELSE IF op = "deleteCase" THEN "write"
    ELSE IF op = "getCaseById" THEN "read"
    ELSE "count"

\* the requests that arrive: every kind for one handler, and for handlers
\* that run side by side the requests on one case
IncomingRequests ==
    IF Cardinality(DOMAIN handlers) > 1 THEN RaceRequests ELSE CaseRequests

\* a request arrives at the handler
ReceiveCaseRequest(h) ==
    /\ handlers[h].pc \in {"off", "done"}
    /\ handlers[h].served < MaxRequests
    /\ \E r \in IncomingRequests :
          handlers' = [handlers EXCEPT ![h] =
                          [NoHandler EXCEPT !.req = r, !.pc = "start", !.caseId = r.caseId,
                                            !.served = handlers[h].served + 1]]
    /\ UNCHANGED <<cases, chatVars, textVars, convVars, dbVars, auxVars>>

\* mutant: the bearer token is not checked
CaseAuthenticate_Skip(h) ==
    /\ handlers[h].pc = "start"
    /\ handlers' = [handlers EXCEPT ![h].pc = "ensureDb"]
    /\ UNCHANGED <<cases, chatVars, textVars, convVars, dbVars, auxVars>>

\* chat.ts:260-264, 377-381, 485-489, 536-540 and 652-656
CaseAuthenticate(h) ==
    /\ handlers[h].pc = "start"
    /\ handlers' = [handlers EXCEPT ![h] =
                       IF @.req.authorized THEN [@ EXCEPT !.pc = "ensureDb"] ELSE Finish(@, 401)]
    /\ UNCHANGED <<cases, chatVars, textVars, convVars, dbVars, auxVars>>

\* chat.ts:267 and 542 with database.ts:230-235
CaseEnsureDb(h) ==
    /\ handlers[h].pc = "ensureDb"
    /\ \E ok \in BOOLEAN :
          IF dbInitialized \/ ok
          THEN /\ dbInitialized' = TRUE
               /\ handlers' = [handlers EXCEPT ![h] =
                                  IF @.req.op = "createCase" THEN [@ EXCEPT !.pc = "parse"]
                                  ELSE CaseQuery(@, FirstQuery(@.req.op))]
          ELSE /\ UNCHANGED dbInitialized
               /\ handlers' = [handlers EXCEPT ![h] = DbFailure(@)]
    /\ UNCHANGED <<cases, configured, call, store, request, pc, userMessage, queryEmbedding,
                   relevantCases, dbq, trace, aiResponse, response, textVars, convVars, dbVars,
                   auxVars>>

\* chat.ts:269-280 (createCase) and 557-563 (updateCase): request.json()
CaseParse(h) ==
    /\ handlers[h].pc = "parse"
    /\ LET hd == handlers[h]
       IN  handlers' = [handlers EXCEPT ![h] =
              IF hd.req.json # "ok" THEN Finish(hd, 500)
              ELSE IF hd.req.op = "updateCase" THEN CaseEmbedding(hd)
              ELSE IF InvalidCaseId(hd.req.body["case_id"]) THEN Finish(hd, 400)
              ELSE CaseQuery([hd EXCEPT !.caseId = hd.req.body["case_id"]], "select")]
    /\ UNCHANGED <<cases, chatVars, textVars, convVars, dbVars, auxVars>>

\* chat.ts:283-296 (createCase) and 545-555 (updateCase): one attempt of the
\* SELECT and, when it returns, the check of the rows
CaseSelect(h) ==
    /\ handlers[h].pc = "select"
    /\ \E o \in DbOutcomes :
          LET hd == handlers[h]
              q == QueryWithRetryStep(hd.dbq, o)
              exists == cases[hd.caseId].present
          IN  handlers' = [handlers EXCEPT ![h] =
                 IF q.status = "running" THEN [hd EXCEPT !.dbq = q]
                 ELSE IF q.status = "thrown" THEN DbFailure(hd)
                 ELSE IF hd.req.op = "createCase"
                      THEN (IF exists THEN Finish(hd, 409) ELSE CaseEmbedding(hd))
                      ELSE (IF exists THEN [hd EXCEPT !.pc = "parse", !.dbq = NoQuery]
                            ELSE Finish(hd, 404))]
    /\ UNCHANGED <<cases, chatVars, textVars, convVars, dbVars, auxVars>>

\* one attempt of the generateEmbedding the handler awaits
CaseEmbeddingAttempt(h) ==
    /\ handlers[h].pc = "embedding"
    /\ handlers[h].call.status = "running"
    /\ \E o \in OutcomesWith({NoHint}) :
          handlers' = [handlers EXCEPT ![h].call = GenerateEmbeddingStep(@, o)]
    /\ UNCHANGED <<cases, chatVars, textVars, convVars, dbVars, auxVars>>

\* chat.ts:298-319: createCase keeps what generateEmbedding returned, [] when
\* it threw, and reads embedding.length while it builds the INSERT
CreateEmbeddingDone(hd) ==
    LET e == IF hd.call.status = "thrown" THEN EmptyArray ELSE hd.call.result
        g == [hd EXCEPT !.embedded = EmbeddingKind(hd.call), !.embedding = e, !.call = NoCall]
    IN  IF e = Undefined THEN Finish(g, 500) ELSE CaseQuery(g, "write")

\* chat.ts:559-571: updateCase reads embedding.length inside the try and
\* adds the embedding clause for a non-empty vector only
UpdateEmbeddingDone(hd) ==
    LET kind == EmbeddingKind(hd.call)
        e == IF kind = "vector" THEN hd.call.result ELSE EmptyArray
    IN  CaseQuery([hd EXCEPT !.embedded = kind, !.embedding = e, !.call = NoCall], "write")

\* generateEmbedding has returned or thrown
CaseEmbeddingDone(h) ==
    /\ handlers[h].pc = "embedding"
    /\ handlers[h].call.status \in {"returned", "thrown"}
    /\ handlers' = [handlers EXCEPT ![h] =
                       IF @.req.op = "createCase" THEN CreateEmbeddingDone(@)
                       ELSE UpdateEmbeddingDone(@)]
    /\ UNCHANGED <<cases, chatVars, textVars, convVars, dbVars, auxVars>>

\* the value of column embedding the statement writes
WrittenEmbedding(hd) ==
    IF Len(hd.embedding.elems) > 0
    THEN StoredEmbedding(hd.embedding.elems[1], EmbeddedText(hd))
    ELSE NullEmbedding

\* chat.ts:308-341: the INSERT; case_id is UNIQUE, a second row is refused
InsertCase(h) ==
    LET hd == handlers[h] IN
    IF cases[hd.caseId].present
    THEN /\ handlers' = [handlers EXCEPT ![h] = [DbFailure(hd) EXCEPT !.data = "unique_violation"]]
         /\ UNCHANGED cases
    ELSE /\ cases' = [cases EXCEPT ![hd.caseId] =
                         CaseRow(StoredFields(hd.req.body, hd.caseId), WrittenEmbedding(hd))]
         /\ handlers' = [handlers EXCEPT ![h] =
                            [Finish(hd, 201) EXCEPT !.wrote = TRUE, !.data = "row"]]

\* chat.ts:573-620: the UPDATE; column embedding is assigned only with the clause
UpdateCase(h) ==
    LET hd == handlers[h] IN
    IF cases[hd.caseId].present
    THEN /\ cases' = [cases EXCEPT ![hd.caseId] =
                         CaseRow(StoredFields(hd.req.body, hd.caseId),
                                 IF Len(hd.embedding.elems) > 0 THEN WrittenEmbedding(hd)
                                 ELSE @.embedding)]
         /\ handlers' = [handlers EXCEPT ![h] =
                            [Finish(hd, 200) EXCEPT !.wrote = TRUE, !.data = "row"]]
    ELSE /\ UNCHANGED cases
         /\ handlers' = [handlers EXCEPT ![h] =
                            [Finish(hd, 200) EXCEPT !.data = "undefined"]]

\* chat.ts:660-682: the DELETE ... RETURNING case_id
DeleteCase(h) ==
    LET hd == handlers[h] IN
    IF cases[hd.caseId].present
    THEN /\ cases' = [cases EXCEPT ![hd.caseId] = NoRow]
         /\ handlers' = [handlers EXCEPT ![h] = [Finish(hd, 200) EXCEPT !.wrote = TRUE]]
    ELSE /\ UNCHANGED cases
         /\ handlers' = [handlers EXCEPT ![h] = Finish(hd, 404)]

\* chat.ts:430-470 (listCases) and 493-518 (getCaseById): one attempt of a
\* reading query and, when it returns, the next query or the response
CaseRead(h) ==
    /\ handlers[h].pc \in {"count", "read"}
    /\ \E o \in DbOutcomes :
          LET hd == handlers[h]
              q == QueryWithRetryStep(hd.dbq, o)
          IN  handlers' = [handlers EXCEPT ![h] =
                 IF q.status = "running" THEN [hd EXCEPT !.dbq = q]
                 ELSE IF q.status = "thrown" THEN DbFailure(hd)
                 ELSE IF hd.pc = "count" THEN CaseQuery(hd, "read")
                 ELSE IF hd.req.op = "listCases" THEN [Finish(hd, 200) EXCEPT !.data = "list"]
                 ELSE IF cases[hd.caseId].present THEN [Finish(hd, 200) EXCEPT !.data = "row"]
                 ELSE Finish(hd, 404)]
    /\ UNCHANGED <<cases, chatVars, textVars, convVars, dbVars, auxVars>>

\* one attempt of the INSERT or UPDATE and, when it returns, the response
CaseWrite(h) ==
    /\ handlers[h].pc = "write"
    /\ \E o \in DbOutcomes :
          LET hd == handlers[h]
              q == QueryWithRetryStep(hd.dbq, o)
          IN  IF q.status = "running"
              THEN handlers' = [handlers EXCEPT ![h].dbq = q] /\ UNCHANGED cases
              ELSE IF q.status = "thrown"
              THEN handlers' = [handlers EXCEPT ![h] = DbFailure(hd)] /\ UNCHANGED cases
              ELSE IF hd.req.op = "createCase" THEN InsertCase(h)
              ELSE IF hd.req.op = "updateCase" THEN UpdateCase(h)
              ELSE DeleteCase(h)
    /\ UNCHANGED <<chatVars, textVars, convVars, dbVars, auxVars>>

(***************************************************************************)
(* queryWithRetry called on its own (database.ts:58-99)                     *)
(***************************************************************************)
\* the outcomes of pool.query: the result, every transient code, other codes
AllDbOutcomes == {"ok", "42P01", "23505"} \cup TransientCodes

NoDbCall == [q |-> NoQuery, log |-> <<>>]

\* one iteration of the loop of a queryWithRetry called on its own
PoolQuery ==
    /\ dbCall.q.status = "running"
    /\ \E o \in AllDbOutcomes :
          dbCall' = [q |-> QueryWithRetryStep(dbCall.q, o), log |-> Append(dbCall.log, o)]
    /\ UNCHANGED <<client, paging, chatVars, textVars, convVars, dbVars, caseVars>>

(***************************************************************************)
(* The API client of the frontend (frontend/src/lib/api.ts:20-80)           *)
(***************************************************************************)
CLIENT_MAX_RETRIES == 3
RETRY_BASE_DELAY == 1000

\* what a send ends with: a 2xx response, no response at all, or an error status
ClientOutcome(kind, status) == [kind |-> kind, status |-> status]

ClientOutcomes ==
    {ClientOutcome("ok", 200), ClientOutcome("network", 0), ClientOutcome("timeout", 0)}
    \cup {ClientOutcome("http", st) : st \in {400, 401, 404, 409, 429, 500, 503}}

\* !error.response
NoResponseReceived(o) == o.kind \in {"network", "timeout"}

\* mutant: every failure is retried
ClientIsRetryable_All(o) == TRUE

\* api.ts:52-55
ClientIsRetryable(o) == NoResponseReceived(o) \/ o.status = 429 \/ o.status >= 500

NoClient == [status |-> "idle", retryCount |-> 0, delay |-> 0, waited |-> 0, log |-> <<>>]
NewClient == [NoClient EXCEPT !.status = "running"]

\* api.ts:41-76: the request is sent; a 2xx resolves, an error goes to the
\* interceptor, which waits and sends again or rejects
ClientStep(c, o) ==
    LET sent == [c EXCEPT !.log = Append(@, o), !.delay = 0] IN
    IF o.kind = "ok" THEN [sent EXCEPT !.status = "resolved"]
    ELSE IF ClientIsRetryable(o) /\ c.retryCount < CLIENT_MAX_RETRIES
         THEN LET d == RETRY_BASE_DELAY * Pow2(c.retryCount)
              IN  [sent EXCEPT !.retryCount = @ + 1, !.delay = d, !.waited = @ + d]
         ELSE [sent EXCEPT !.status = "rejected"]

\* one send of the request and the handling of its outcome
ClientSend ==
    /\ client.status = "running"
    /\ \E o \in ClientOutcomes : client' = ClientStep(client, o)
    /\ UNCHANGED <<dbCall, paging, chatVars, textVars, convVars, dbVars, caseVars>>

(***************************************************************************)
(* The paging parameters of listCases (functions/chat.ts:385-392)           *)
(***************************************************************************)
\* a page number far beyond the table
HugeParam == 1000000

MAX_PAGE_SIZE == 100
DEFAULT_PAGE_SIZE == 20

\* a JavaScript number: an integer or NaN
Num(v) == [nan |-> FALSE, val |-> v]
NaN == [nan |-> TRUE, val |-> 0]

\* request.query.get(name): null, or the text of the parameter, which is
\* empty, starts with an integer, or starts with no digit
Param(kind, v) == [kind |-> kind, val |-> v]

Params ==
    {Param("null", 0), Param("empty", 0), Param("text", 0)}
    \cup {Param("integer", v) : v \in {0 - HugeParam, 0 - 3, 0, 1, 2, MAX_PAGE_SIZE,
                                       MAX_PAGE_SIZE + 1, HugeParam}}

\* parseInt(p || default, 10)
ParseIntOr(p, default) ==
    IF p.kind \in {"null", "empty"} THEN Num(default)
    ELSE IF p.kind = "integer" THEN Num(p.val)
    ELSE NaN

\* Math.max and Math.min: NaN when an argument is NaN
MathMax(a, b) == IF a.nan \/ b.nan THEN NaN ELSE IF a.val >= b.val THEN a ELSE b
MathMin(a, b) == IF a.nan \/ b.nan THEN NaN ELSE IF a.val <= b.val THEN a ELSE b

\* chat.ts:386
PageOf(p) == MathMax(Num(1), ParseIntOr(p, 1))

\* chat.ts:387
PageSizeOf(p) == MathMin(Num(MAX_PAGE_SIZE), MathMax(Num(1), ParseIntOr(p, DEFAULT_PAGE_SIZE)))

\* chat.ts:392, (page - 1) * pageSize
OffsetOf(page, pageSize) ==
    IF page.nan \/ pageSize.nan THEN NaN ELSE Num((page.val - 1) * pageSize.val)

NoPaging ==
    [query |-> [page |-> Param("null", 0), pageSize |-> Param("null", 0)], parsed |-> FALSE,
     page |-> Num(0), pageSize |-> Num(0), offset |-> Num(0)]

\* chat.ts:385-392
ParsePaging ==
    /\ ~paging.parsed
    /\ LET page == PageOf(paging.query.page)
           pageSize == PageSizeOf(paging.query.pageSize)
       IN  paging' = [paging EXCEPT !.parsed = TRUE, !.page = page, !.pageSize = pageSize,
                                    !.offset = OffsetOf(page, pageSize)]
    /\ UNCHANGED <<dbCall, client, chatVars, textVars, convVars, dbVars, caseVars>>

AuxIdle == dbCall = NoDbCall /\ client = NoClient /\ paging = NoPaging

(***************************************************************************)
(* Specifications                                                           *)
(***************************************************************************)
\* one chat request against a store, on a fresh process
Init ==
    /\ configured \in BOOLEAN
    /\ store \in Stores
    /\ request \in Requests
    /\ pc = "start"
    /\ call = NoCall
    /\ dbInitialized = FALSE
    /\ userMessage = NoMessage
    /\ queryEmbedding = EmptyArray
    /\ relevantCases = <<>>
    /\ dbq = NoQuery
    /\ trace = <<>>
    /\ aiResponse = ""
    /\ response = NoResponse
    /\ TextIdle
    /\ ConvIdle
    /\ DbIdle
    /\ CasesIdle
    /\ AuxIdle

Next ==
    \/ Authenticate
    \/ EnsureDbInitialized
    \/ Validate
    \/ GenerateEmbeddingAttempt
    \/ EmbeddingDone
    \/ QueryAttempt
    \/ ChatCompletionAttempt
    \/ ChatDone

Spec == Init /\ [][Next]_vars

\* one call of generateEmbedding or chatCompletion on its own
InitOpenAI ==
    /\ configured \in BOOLEAN
    /\ call \in {EnterCall(f, configured) : f \in {"generateEmbedding", "chatCompletion"}}
    /\ store = <<>>
    /\ request = NoRequest
    /\ pc = "idle"
    /\ dbInitialized = FALSE
    /\ userMessage = NoMessage
    /\ queryEmbedding = EmptyArray
    /\ relevantCases = <<>>
    /\ dbq = NoQuery
    /\ trace = <<>>
    /\ aiResponse = ""
    /\ response = NoResponse
    /\ TextIdle
    /\ ConvIdle
    /\ DbIdle
    /\ CasesIdle
    /\ AuxIdle

NextOpenAI ==
    \/ GenerateEmbeddingAttempt
    \/ ChatCompletionAttempt

SpecOpenAI == InitOpenAI /\ [][NextOpenAI]_vars

\* the handler and the calls at rest
ChatIdle ==
    /\ configured = TRUE
    /\ call = NoCall
    /\ store = <<>>
    /\ request = NoRequest
    /\ pc = "off"
    /\ dbInitialized = FALSE
    /\ userMessage = NoMessage
    /\ queryEmbedding = EmptyArray
    /\ relevantCases = <<>>
    /\ dbq = NoQuery
    /\ trace = <<>>
    /\ aiResponse = ""
    /\ response = NoResponse

\* buildCaseEmbeddingText applied to one case record
InitText ==
    /\ ChatIdle
    /\ caseData \in CaseDatas
    /\ embeddingText = NoText
    /\ ConvIdle
    /\ DbIdle
    /\ CasesIdle
    /\ AuxIdle

NextText == BuildText

\* requests on a fresh process call ensureDbInitialized
InitDb ==
    /\ ChatIdle
    /\ TextIdle
    /\ ConvIdle
    /\ callers = [c \in Callers |-> [pc |-> "idle", calls |-> 0]]
    /\ initRuns = NoRuns
    /\ CasesIdle
    /\ AuxIdle

NextDb == \E c \in Callers : EnsureEnter(c) \/ InitializeDatabaseEnds(c)

SpecDb == InitDb /\ [][NextDb]_vars

\* createCase and updateCase requests served against a table
InitCases ==
    /\ ChatIdle
    /\ TextIdle
    /\ ConvIdle
    /\ DbIdle
    /\ cases \in InitialTables
    /\ handlers = [h \in Handlers |-> NoHandler]
    /\ AuxIdle

NextCases ==
    \E h \in DOMAIN handlers :
        \/ ReceiveCaseRequest(h)
        \/ CaseAuthenticate(h)
        \/ CaseEnsureDb(h)
        \/ CaseParse(h)
        \/ CaseSelect(h)
        \/ CaseEmbeddingAttempt(h)
        \/ CaseEmbeddingDone(h)
        \/ CaseRead(h)
        \/ CaseWrite(h)

SpecCases == InitCases /\ [][NextCases]_vars

\* two handlers serve requests on case C-1 side by side; no OpenAI endpoint
\* is configured, so generateEmbedding returns [] at once
InitRace ==
    /\ configured = FALSE
    /\ call = NoCall
    /\ store = <<>>
    /\ request = NoRequest
    /\ pc = "off"
    /\ dbInitialized = FALSE
    /\ userMessage = NoMessage
    /\ queryEmbedding = EmptyArray
    /\ relevantCases = <<>>
    /\ dbq = NoQuery
    /\ trace = <<>>
    /\ aiResponse = ""
    /\ response = NoResponse
    /\ TextIdle
    /\ ConvIdle
    /\ DbIdle
    /\ AuxIdle
    /\ cases \in InitialTables
    /\ handlers = [h \in RaceHandlers |-> NoHandler]

SpecRace == InitRace /\ [][NextCases]_vars

\* the backend serves one chat request, or case requests
InitBackend == Init \/ InitCases

NextBackend == Next \/ (handlers # <<>> /\ NextCases)

SpecBackend == InitBackend /\ [][NextBackend]_vars

\* one call of queryWithRetry
InitQuery ==
    /\ ChatIdle
    /\ TextIdle
    /\ ConvIdle
    /\ DbIdle
    /\ CasesIdle
    /\ dbCall = [q |-> NewQuery("query"), log |-> <<>>]
    /\ client = NoClient
    /\ paging = NoPaging

NextQuery == PoolQuery

SpecQuery == InitQuery /\ [][NextQuery]_vars

\* one request of the API client
InitClient ==
    /\ ChatIdle
    /\ TextIdle
    /\ ConvIdle
    /\ DbIdle
    /\ CasesIdle
    /\ dbCall = NoDbCall
    /\ client = NewClient
    /\ paging = NoPaging

NextClient == ClientSend

SpecClient == InitClient /\ [][NextClient]_vars

\* listCases reads its paging parameters
InitPaging ==
    /\ ChatIdle
    /\ TextIdle
    /\ ConvIdle
    /\ DbIdle
    /\ CasesIdle
    /\ dbCall = NoDbCall
    /\ client = NoClient
    /\ paging \in {[NoPaging EXCEPT !.query = [page |-> p, pageSize |-> s]] : p, s \in Params}

NextPaging == ParsePaging

SpecPaging == InitPaging /\ [][NextPaging]_vars

\* chatCompletion builds its messages from one history
InitMessages ==
    /\ ChatIdle
    /\ TextIdle
    /\ userQuery \in UserQueries
    /\ conversationHistory \in Histories
    /\ messages = <<>>
    /\ conversation = NoConversation
    /\ DbIdle
    /\ CasesIdle
    /\ AuxIdle

NextMessages == BuildMessages

SpecMessages == InitMessages /\ [][NextMessages]_vars

\* a user chats from the sidebar, each message is served by chatHandler
InitConversation ==
    /\ configured = TRUE
    /\ store \in {<<>>, <<Row(1, 1, {"idle", "vm"})>>}
    /\ request = NoRequest
    /\ pc = "off"
    /\ call = NoCall
    /\ dbInitialized = FALSE
    /\ userMessage = NoMessage
    /\ queryEmbedding = EmptyArray
    /\ relevantCases = <<>>
    /\ dbq = NoQuery
    /\ trace = <<>>
    /\ aiResponse = ""
    /\ response = NoResponse
    /\ TextIdle
    /\ userQuery = NoMessage
    /\ conversationHistory = <<>>
    /\ messages = <<>>
    /\ conversation = NewConversation
    /\ DbIdle
    /\ CasesIdle
    /\ AuxIdle

NextConversation ==
    \/ HandleSend
    \/ Authenticate
    \/ EnsureDbInitialized
    \/ Validate
    \/ GenerateEmbeddingAttempt
    \/ EmbeddingDone
    \/ QueryAttempt
    \/ ChatCompletionAttempt
    \/ ChatDone
    \/ HandleResponse

SpecConversation == InitConversation /\ [][NextConversation]_vars

SpecText == InitText /\ [][NextText]_vars


(***************************************************************************)
(* Properties                                                               *)
(***************************************************************************)
Range(s) == {s[i] : i \in 1..Len(s)}

\* the handler has made the call or logged the warning e
Logged(e) == e \in Range(trace)

\* every occurrence of e in the trace is directly followed by f
FollowedBy(e, f) ==
    \A i \in 1..Len(trace) : trace[i] = e => (i < Len(trace) /\ trace[i + 1] = f)

\* the retrieval queries issued so far, in order
QueriesIssued == SelectSeq(trace, LAMBDA e : e \in {"vector", "keyword", "recent"})

TierRank(t) == IF t = "vector" THEN 1 ELSE IF t = "keyword" THEN 2 ELSE 3


\* the rows of the store that carry an embedding
Embedded == {i \in 1..Len(store) : store[i].embedding # 0}

\* C1: when the query embedding is non-empty and the vector query succeeds
\* with at least one row, relevantCases is exactly the rows of the vector
\* query and neither the keyword nor the recent-cases query is issued; the
\* queries of one request are issued in the order vector, keyword, recent.
C1_VectorHitStopsRetrieval ==
    /\ (/\ Logged("vector") /\ pc # "vector" /\ ~Logged("vectorFailed")
        /\ HasQueryEmbedding(queryEmbedding)
        /\ Embedded # {})
       => /\ relevantCases = VectorQuery(store, queryEmbedding.elems)
          /\ Len(relevantCases) = Min(TOP_K_CASES, Cardinality(Embedded))
          /\ \A i \in 1..Len(relevantCases) : relevantCases[i].embedding # 0
          /\ QueriesIssued = <<"vector">>
          /\ ~Logged("keywordTier")
    /\ \A i, j \in 1..Len(QueriesIssued) :
          i < j => TierRank(QueriesIssued[i]) < TierRank(QueriesIssued[j])

C1_Witness ==
    /\ pc = "done" /\ response.status = 200
    /\ QueriesIssued = <<"vector">>
    /\ Len(relevantCases) = TOP_K_CASES
    /\ Cardinality(Embedded) > TOP_K_CASES

\* generateEmbedding has come back to chatHandler
EmbeddingCameBack == Logged("generateEmbedding") /\ pc # "embedding"

\* the calls and tier entries of the handler after the embedding step
AfterEmbedding == SelectSeq(trace, LAMBDA e : e \notin {"generateEmbedding", "embeddingFailed"})

\* C2: when the query embedding is absent (generateEmbedding returned the
\* empty array or threw), the vector query is never issued and the handler
\* goes straight to the keyword tier.
C2_AbsentEmbeddingSkipsVector ==
    (EmbeddingCameBack /\ queryEmbedding = EmptyArray)
    => /\ ~Logged("vector")
       /\ AfterEmbedding # <<>>
       /\ Head(AfterEmbedding) = "keywordTier"

C2_Witness ==
    /\ pc = "done" /\ response.status = 200
    /\ Logged("embeddingFailed")
    /\ queryEmbedding = EmptyArray
    /\ Logged("keyword")

\* the retrieval of the request is over
RetrievalOver == Logged("chatCompletion")

\* s is the n most recent rows of the store, newest first (all rows if fewer)
IsMostRecent(s, n) ==
    /\ Len(s) = Min(n, Len(store))
    /\ \A i \in 1..Len(s) : s[i] = store[Len(store) + 1 - i]

C4_TierFailureFallsThrough ==
    /\ FollowedBy("vectorFailed", "keywordTier")
    /\ FollowedBy("keywordFailed", "recent")
    /\ FollowedBy("recentFailed", "chatCompletion")
    /\ (Logged("vectorFailed") \/ Logged("keywordFailed") \/ Logged("recentFailed"))
       => /\ response.status # 500
          /\ pc = "done" => response.status = 200
    /\ (RetrievalOver /\ Logged("recentFailed")) => relevantCases = <<>>

C4_Witness ==
    /\ pc = "done" /\ response.status = 200
    /\ Logged("vectorFailed") /\ Logged("keywordFailed") /\ Logged("recentFailed")

\* C5: every request whose message passes validation is answered with a
\* well-formed 200, whatever the embedding call, the queries and the
\* generation call do.
C5_ValidatedRequestGets200 ==
    (pc = "done" /\ Logged("generateEmbedding"))
    => /\ response.status = 200
       /\ response.content # ""

\* the message is a string that is empty, blank, or longer than the limit
InvalidMessage(m) ==
    /\ m.type = "string"
    /\ (m.core = 0 \/ m.core > MAX_MESSAGE_LENGTH)

\* the request got as far as the validation of the message
ReachedValidation == request.authorized /\ dbInitialized /\ request.json = "ok"

FallbackTexts == {NOT_CONFIGURED, NO_RESPONSE, APOLOGY, UNABLE}

\* chatCompletion came back after every attempt was answered with 429
AllRateLimited ==
    /\ call.fn = "chatCompletion" /\ call.status # "running"
    /\ call.seen = {"rateLimit"}

\* C7 (as stated): when the generation endpoint answers every attempt with
\* 429, the answer carries the fixed fallback text and no citation list,
\* whatever retrieval returned, and nothing is thrown.
C7_Original ==
    (pc = "done" /\ AllRateLimited)
    => /\ response.status = 200
       /\ response.content \in FallbackTexts
       /\ ~response.hasSources

\* C7 (amended): when the generation endpoint answers every attempt with 429,
\* the handler answers 200 with the fixed text UNABLE after MAX_RETRIES
\* requests; the citation list is still the case ids of the first retrieved
\* cases, and is omitted only when retrieval returned no case.
C7_RateLimitedGeneration ==
    /\ AllRateLimited => (call.status = "returned" /\ call.requests = MAX_RETRIES)
    /\ (pc = "done" /\ AllRateLimited)
       => /\ response.status = 200
          /\ response.content = UNABLE
          /\ response.hasSources = (Len(relevantCases) > 0)
          /\ Len(response.sources) = Min(SOURCES_LIMIT, Len(relevantCases))
          /\ \A i \in 1..Len(response.sources) :
                response.sources[i] = relevantCases[i].case_id

C7_Witness ==
    /\ pc = "done" /\ AllRateLimited
    /\ response.hasSources
    /\ Len(response.sources) = SOURCES_LIMIT

\* chatCompletion has ended, after at least one attempt, without text from
\* the model
ChatEndedWithoutText ==
    /\ call.fn = "chatCompletion"
    /\ call.status \in {"returned", "thrown"}
    /\ call.attempt > 0
    /\ call.last # "ok"

\* C8 (as stated): chatCompletion never throws, and whenever it has no
\* generated text it returns one and the same apology string.
C8_Original ==
    ChatEndedWithoutText => (call.status = "returned" /\ call.text = APOLOGY)

\* C8 (amended): chatCompletion never throws; without generated text it
\* returns one of four fixed strings, chosen only by how the call ended:
\* NOT_CONFIGURED when nothing is configured, NO_RESPONSE when the body has
\* no content, UNABLE when the last attempt was rate limited, APOLOGY when the
\* last attempt raised an error.
C8_ChatCompletionFailsSoft ==
    call.fn = "chatCompletion"
    => /\ call.status # "thrown"
       /\ call.requests <= MAX_RETRIES
       /\ call.status = "returned"
          => /\ call.text \in FallbackTexts \cup {GENERATED}
             /\ call.text = GENERATED <=> call.last = "ok"
             /\ call.text = NOT_CONFIGURED <=> call.attempt = 0
             /\ call.text = NO_RESPONSE <=> call.last = "noField"
             /\ call.text = UNABLE <=> (call.last = "rateLimit" /\ call.attempt = MAX_RETRIES + 1)
             /\ call.text = APOLOGY
                <=> (call.attempt = MAX_RETRIES
                     /\ call.last \notin {"ok", "noField", "rateLimit"})

C8_Witness ==
    /\ call.fn = "chatCompletion" /\ call.status = "returned"
    /\ call.text = APOLOGY
    /\ call.requests = MAX_RETRIES
    /\ call.seen = {"rateLimit", "netTransient", "other"}

\* every attempt made so far was rate limited, reset or timed out
OnlyTransient ==
    /\ call.fn = "generateEmbedding"
    /\ call.seen # {}
    /\ call.seen \subseteq {"rateLimit", "netTransient"}

\* C9: when every attempt of generateEmbedding is rate limited or fails with a
\* connection reset or a timeout, the call sends exactly MAX_RETRIES requests,
\* never one more, and returns the empty array without throwing.
C9_EmbeddingRetriesExhaust ==
    /\ call.fn = "generateEmbedding" => call.requests <= MAX_RETRIES
    /\ OnlyTransient
       => /\ call.status # "thrown"
          /\ call.status = "running" <=> call.requests < MAX_RETRIES
          /\ call.status = "returned"
             => (call.requests = MAX_RETRIES /\ call.result = EmptyArray)

C9_Witness ==
    /\ OnlyTransient
    /\ call.seen = {"rateLimit", "netTransient"}
    /\ call.status = "returned" /\ call.requests = MAX_RETRIES
    /\ call.result = EmptyArray

\* the last attempt ended in a terminal failure: a status that is neither OK
\* nor 429, or a body that is malformed
TerminalFailure == call.last \in {"http4xx", "http5xx", "badJson", "noField"}

\* C10: after a terminal failure at any attempt generateEmbedding returns the
\* empty array; it does not throw to its caller.
C10_TerminalFailureReturnsAbsent ==
    (call.fn = "generateEmbedding" /\ TerminalFailure)
    => (call.status = "returned" /\ call.result = EmptyArray)


\* an attempt of the running or finished call has been made
AttemptMade == call.fn \in {"generateEmbedding", "chatCompletion"} /\ call.last # "none"

\* C13: in generateEmbedding and chatCompletion a connection reset, timeout,
\* 429 or 5xx on an attempt before the last is followed by another attempt,
\* and a 4xx other than 429 or a malformed response ends the call at once.
C13_RetryableVersusTerminal ==
    AttemptMade
    => /\ call.last \in {"netTransient", "rateLimit", "http5xx"}
          => (call.status = "running" \/ call.attempt >= MAX_RETRIES)
       /\ call.last \in {"http4xx", "badJson", "noField"}
          => call.status # "running"

\* C14: after a 429 on attempt n the call waits before the next request: at
\* least the retry-after hint, in seconds, when the response carries one, and
\* INITIAL_RETRY_DELAY * 2^(n-1) ms when it carries none.
C14_RateLimitWait ==
    (AttemptMade /\ call.last = "rateLimit")
    => /\ call.attempt >= 2
       /\ call.hint # NoHint => call.delay >= call.hint * 1000
       /\ call.hint = NoHint => call.delay = INITIAL_RETRY_DELAY * (2 ^ (call.attempt - 2))
       /\ call.waited >= call.delay
       /\ call.requests >= 1

C14_Witness ==
    /\ AttemptMade /\ call.last = "rateLimit"
    /\ call.hint = 5 /\ call.delay = 5000
    /\ call.attempt = 4 /\ call.status = "running"

\* the largest backoff of a call: the delay of the last attempt
MaxBackoff == INITIAL_RETRY_DELAY * (2 ^ (MAX_RETRIES - 1))

\* C15: one call of generateEmbedding or chatCompletion never waits longer in
\* total than MAX_RETRIES * MaxBackoff, also when the server sends
\* retry-after hints.
C15_TotalWaitBounded ==
    call.waited <= MAX_RETRIES * MaxBackoff

RECURSIVE NoDuplicates(_)
NoDuplicates(s) ==
    IF s = <<>> THEN TRUE
    ELSE Head(s) \notin Range(Tail(s)) /\ NoDuplicates(Tail(s))

\* C16: the sources of a chat answer are the case ids of the first at most
\* SOURCES_LIMIT retrieved cases, in retrieval order and without duplicates,
\* and the sources field is omitted exactly when that list is empty.
C16_SourcesOfAnswer ==
    (pc = "done" /\ response.status = 200)
    => /\ Len(response.sources) <= SOURCES_LIMIT
       /\ Len(response.sources) = Min(SOURCES_LIMIT, Len(relevantCases))
       /\ \A i \in 1..Len(response.sources) :
             response.sources[i] = relevantCases[i].case_id
       /\ NoDuplicates(response.sources)
       /\ response.hasSources <=> response.sources # <<>>

C16_Witness ==
    /\ pc = "done" /\ response.status = 200
    /\ Len(relevantCases) > SOURCES_LIMIT
    /\ Len(response.sources) = SOURCES_LIMIT
    /\ response.hasSources

\* the labels of the built text
LabelsOf(parts) == {parts[i].label : i \in 1..Len(parts)}

\* C19: buildCaseEmbeddingText emits a labelled part only for the fields that
\* have a non-empty value; an empty or absent field contributes no label.
C19_OnlyNonEmptyFieldsLabelled ==
    embeddingText.built
    => \A f \in CaseFields :
          caseData[f] \in {ABSENT, ""} => LabelOf(f) \notin LabelsOf(embeddingText.parts)

\* C17: for a history of any length the messages chatCompletion sends hold at
\* most HISTORY_WINDOW history turns, the most recent ones in their order,
\* after the system message and before the user query.
C17_HistoryWindow ==
    messages # <<>>
    => LET n == Len(conversationHistory)
           k == Min(HISTORY_WINDOW, n)
       IN  /\ Len(messages) = k + 2
           /\ messages[1].role = "system"
           /\ messages[k + 2] = UserTurn(userQuery)
           /\ \A i \in 1..k : messages[1 + i] = conversationHistory[n - k + i]

C17_Witness ==
    /\ messages # <<>>
    /\ Len(conversationHistory) = MaxHistory
    /\ Len(messages) = HISTORY_WINDOW + 2

\* an exchange the sidebar has completed: a user turn and the answer to it
CompletedExchanges ==
    {i \in 1..(Len(conversation.messages) - 1) :
        /\ conversation.messages[i].role = "user"
        /\ conversation.messages[i + 1].role = "assistant"}

\* C18: once a chat request of a conversation has completed, the next request
\* of the same conversation presents the user turn and the assistant turn of
\* that request to the generation model.
C18_PreviousTurnsPresented ==
    (conversation.sending /\ pc = "generation" /\ Running("chatCompletion"))
    => \A i \in CompletedExchanges :
          /\ conversation.messages[i] \in Range(PresentedMessages)
          /\ conversation.messages[i + 1] \in Range(PresentedMessages)

\* C20: for any number of calls of ensureDbInitialized, one after the other or
\* overlapping, initializeDatabase is started at most once as long as it
\* succeeds: every start after the first follows a failed run.
C20_InitializedOnce ==
    initRuns.started <= 1 + initRuns.failed

\* a handler that got an answer from generateEmbedding and has returned
\* without a failure of the database
EmbeddingSettled(hd) == hd.pc = "done" /\ hd.embedded # "none" /\ ~hd.dbError

\* C11: whatever generateEmbedding gives createCase or updateCase (a vector,
\* the empty array, an exception, undefined), the INSERT or UPDATE is executed
\* and the handler answers 201 or 200; when no vector came back the record is
\* stored with a NULL embedding.
C11_EmbeddingNeverBlocksWrite ==
    \A h \in DOMAIN handlers :
        LET hd == handlers[h] IN
        EmbeddingSettled(hd)
        => /\ hd.wrote
           /\ hd.status = (IF hd.req.op = "createCase" THEN 201 ELSE 200)
           /\ hd.embedded # "vector" => cases[hd.caseId].embedding = NullEmbedding

\* C12: after a successful updateCase the stored embedding of the record is
\* NULL or the vector generated from the updated field values, never a vector
\* computed from an earlier version of the record.
C12_NoStaleEmbedding ==
    \A h \in DOMAIN handlers :
        LET hd == handlers[h] IN
        (hd.pc = "done" /\ hd.req.op = "updateCase" /\ hd.status = 200 /\ hd.wrote)
        => \/ cases[hd.caseId].embedding = NullEmbedding
           \/ cases[hd.caseId].embedding.text = UpdateText(hd.req.body, hd.caseId)

\* C26: for a validated message of at most 2 characters the keyword tier
\* issues no full-text query, raises no error and leaves the candidates
\* empty, and retrieval goes on with the recency tier.
C26_ShortMessageSkipsKeywordQuery ==
    (Logged("keywordTier") /\ Length(userMessage) <= 2)
    => /\ ~Logged("keyword")
       /\ ~Logged("keywordFailed")
       /\ FollowedBy("keywordTier", "recent")
       /\ pc = "recent" => relevantCases = <<>>
       /\ pc = "done" => response.status = 200

C26_Witness ==
    /\ Logged("keywordTier") /\ Length(userMessage) = 2
    /\ pc = "done" /\ response.status = 200
    /\ Logged("recent") /\ ~Logged("recentFailed")

\* C27: the vector tier applies no similarity threshold: when the query
\* embedding is present, the vector query succeeds and some record has an
\* embedding, the tier returns a candidate however far it is, so the keyword
\* and recency tiers run only when the query embedding is absent, the vector
\* query failed or no record has an embedding.
C27_NoSimilarityThreshold ==
    /\ (/\ Logged("vector") /\ pc # "vector" /\ ~Logged("vectorFailed")
        /\ Embedded # {})
       => /\ Len(relevantCases) >= 1
          /\ \E i \in Embedded : store[i] = relevantCases[1]
    /\ (Logged("keywordTier") \/ Logged("keyword") \/ Logged("recent"))
       => \/ ~HasQueryEmbedding(queryEmbedding)
          \/ Logged("vectorFailed")
          \/ Embedded = {}

C27_Witness ==
    /\ Logged("vector") /\ pc = "done" /\ response.status = 200
    /\ Len(relevantCases) >= 1
    /\ \A i \in 1..Len(relevantCases) :
          Distance(relevantCases[i].embedding, queryEmbedding.elems[1]) > 0

\* the exceptions of an attempt: everything but a 429, an answer and an
\* answer without the field
FailedWithException(f) ==
    f.last \in {"netTransient", "netOther", "authError", "http4xx", "http5xx", "badJson"}

\* the value a call gives back when its attempts are used up
IsFallback(f) ==
    IF f.fn = "generateEmbedding" THEN f.result = EmptyArray
    ELSE f.text \in {APOLOGY, UNABLE}

\* C28: when the last attempt of generateEmbedding or chatCompletion is
\* rate-limited the call waits the whole computed delay and then returns its
\* fallback without another request; when the last attempt fails with an
\* exception it returns the fallback at once, without a wait.
C28_LastAttemptWait ==
    [][(call.status = "running" /\ call.attempt = MAX_RETRIES /\ call' # call)
       => /\ call'.requests <= MAX_RETRIES
          /\ call'.last = "rateLimit"
             => /\ call'.status = "returned" /\ IsFallback(call')
                /\ call'.delay = RateLimitDelay(call'.hint, MAX_RETRIES)
                /\ call'.waited = call.waited + call'.delay
          /\ FailedWithException(call')
             => /\ call'.status = "returned" /\ IsFallback(call')
                /\ call'.waited = call.waited]_vars

C28_Witness ==
    /\ call.status = "returned" /\ call.last = "rateLimit"
    /\ call.attempt = MAX_RETRIES + 1
    /\ call.hint = NoHint /\ call.delay = MaxBackoff
    /\ call.requests = MAX_RETRIES

\* the outcome of the last execution of the query, and those before it
LastOf(log) == log[Len(log)]
Earlier(log) == {log[i] : i \in 1..(Len(log) - 1)}

\* the codes of transient connection errors
TransientConnectionCodes ==
    {"ECONNRESET", "ECONNREFUSED", "ETIMEDOUT", "57P01", "57P02", "57P03",
     "08001", "08004", "08006"}

RepeatableFailure(o) ==
    \/ o.kind \in {"network", "timeout"}
    \/ o.kind = "http" /\ (o.status = 429 \/ o.status >= 500)

\* C22: the API client sends a failed request again at most CLIENT_MAX_RETRIES
\* times, after 1000, 2000 and 4000 ms, and only after a network error, a 429
\* or a status of 500 and above; any other 4xx is rejected without a retry.
C22_ClientRetries ==
    LET log == client.log IN
    /\ Len(log) <= CLIENT_MAX_RETRIES + 1
    /\ client.retryCount <= CLIENT_MAX_RETRIES
    /\ \A o \in Earlier(log) : RepeatableFailure(o)
    /\ client.waited = RETRY_BASE_DELAY * ((2 ^ client.retryCount) - 1)
    /\ log # <<>>
       => /\ client.status = "resolved" <=> LastOf(log).kind = "ok"
          /\ client.status = "running"
             => /\ Len(log) = client.retryCount
                /\ client.delay = RETRY_BASE_DELAY * (2 ^ (client.retryCount - 1))
          /\ (LastOf(log).kind = "http" /\ LastOf(log).status \in 400..499
              /\ LastOf(log).status # 429)
             => client.status = "rejected" /\ client.delay = 0
          /\ client.status = "rejected"
             => \/ LastOf(log).kind # "ok" /\ ~RepeatableFailure(LastOf(log))
                \/ Len(log) = CLIENT_MAX_RETRIES + 1

C22_Witness ==
    /\ client.status = "rejected"
    /\ Len(client.log) = CLIENT_MAX_RETRIES + 1
    /\ client.waited = 7000

\* C25: for every value of the page and pageSize parameters of listCases the
\* values used are an integer page >= 1, an integer pageSize between 1 and
\* MAX_PAGE_SIZE, and a non-negative integer offset.
C25_PagingInRange ==
    paging.parsed
    => /\ ~paging.page.nan /\ paging.page.val >= 1
       /\ ~paging.pageSize.nan /\ paging.pageSize.val \in 1..MAX_PAGE_SIZE
       /\ ~paging.offset.nan /\ paging.offset.val >= 0

\* a createCase with a usable body whose queries the database executed
CreateServed(hd) ==
    /\ hd.pc = "done" /\ hd.req.op = "createCase"
    /\ hd.req.authorized /\ hd.req.json = "ok" /\ ~InvalidCaseId(hd.req.body["case_id"])
    /\ hd.embedded # "undefined"
    /\ ~hd.dbError \/ hd.data = "unique_violation"

\* C23: of the createCase requests with one case_id, one after the other or
\* overlapping, one answers 201 and inserts a row and every other answers 409
\* and inserts nothing.
C23_DuplicateCreateIsConflict ==
    \A h \in DOMAIN handlers :
        CreateServed(handlers[h])
        => /\ handlers[h].status \in {201, 409}
           /\ handlers[h].wrote <=> handlers[h].status = 201

C29_UpdateAfterDelete ==
    \A h \in DOMAIN handlers :
        LET hd == handlers[h] IN
        (hd.pc = "done" /\ hd.req.op = "updateCase" /\ hd.status = 200)
        => hd.wrote /\ hd.data = "row" /\ cases[hd.caseId].present

====
